---- MODULE Spec2Model ----
(***************************************************************************)
(* Model of gbif_dl/io.py: the bulk downloader made of a batch producer,   *)
(* a bounded asyncio.Queue of batches, a pool of download_queue workers    *)
(* and the single-item fetcher download_single.                            *)
(*                                                                         *)
(* Every action is one run of a coroutine between two await points of the  *)
(* cooperative scheduler.  Task 0 is a direct caller of download_single;   *)
(* tasks 1..nb_workers are the download_queue workers.                     *)
(***************************************************************************)
EXTENDS Integers, Sequences, FiniteSets, TLC

(* ---------------------------- bounds ----------------------------------- *)
MaxItems == 3
MaxDest == 2
MaxBatch == 2
MaxWorkers == 2
MaxRetries == 3

(* ------------------------- program values ------------------------------ *)
OkStatus == 200

\* what the server may do with one GET once the retry policy has given its
\* final word: a response with a status, or a raised client error
NetErr == "ClientError"
Statuses == {200, 204, 500}

Shapes == {"list", "generator", "asyncgen", "asynciter", "int"}

Dests == 1..MaxDest
Urls == 1..MaxItems

\* bytes on disk and on the wire
EmptyBytes == << >>
OldBytes == << 0 >>
Payload(url) == << url >>

NoFile == [exists |-> FALSE, bytes |-> EmptyBytes]
OldFile == [exists |-> TRUE, bytes |-> OldBytes]

\* is_valid_file argument of download_single: None or a predicate on bytes
NoValidator == [supplied |-> FALSE, accepts |-> {}]
Validators == {NoValidator} \cup
              {[supplied |-> TRUE, accepts |-> {Payload(u) : u \in A}] : A \in SUBSET Urls}

Min(a, b) == IF a < b THEN a ELSE b

VARIABLES
    shape,        \* kind of object passed as items to download
    items,        \* the descriptors the caller's object yields, in order
    overwrite,    \* overwrite argument
    batch_size,   \* batch_size argument
    nb_workers,   \* nb_workers argument
    retries,      \* retries argument
    verbose,      \* verbose argument
    loopRunning,  \* an event loop is running in the thread that calls download
    breaks,       \* {} or {k}: the caller's object raises after yielding k items
    unwritable,   \* destinations whose directory cannot be created
    stream,       \* the normalised asynchronous stream (after download:239)
    pc,           \* position of download / download_from_asyncgen
    pos,          \* number of descriptors already pulled from the stream
    held,         \* batch delivered by chunks and not yet accepted by the queue
    queue,        \* asyncio.Queue contents (batches)
    unfinished,   \* asyncio.Queue unfinished task counter (put +1, task_done -1)
    progress,     \* tqdm progress counter
    session,      \* "none", "open", "closed": the shared RetryClient
    exc,          \* the error download_from_asyncgen ended with, or "none"
    runner,       \* "none", "caller", "thread": where the pipeline's loop runs
    thread,       \* "none", "running", "finished": the RunThread
    tresult,      \* the result attribute of the RunThread, or "unset"
    got,          \* what the caller of download received, or "pending"
    tpc,          \* position of every task
    batch,        \* batch a worker is iterating over
    idx,          \* index of the sample a worker is at
    arg,          \* arguments of the running download_single call of a task
    fs,           \* filesystem: destination path -> file
    fs0,          \* the filesystem before the call (ghost)
    h,            \* per descriptor history (ghost)
    enq,          \* batches accepted by the queue, in order (ghost)
    deq,          \* batches handed to a worker, in order (ghost)
    fin           \* batches marked done with task_done, in order (ghost)

vars == << shape, items, overwrite, batch_size, nb_workers, retries, verbose,
           loopRunning, breaks, unwritable, stream, pc, pos, held, queue,
           unfinished, progress, session, exc, runner, thread, tresult, got,
           tpc, batch, idx, arg, fs, fs0, h, enq, deq, fin >>

params == << shape, items, overwrite, batch_size, nb_workers, retries, verbose,
             loopRunning, breaks, unwritable, fs0 >>
bridge == << exc, runner, thread, tresult, got >>
driver == << stream, pc, pos, held, progress, session, enq, bridge >>

Direct == 0
Workers == 1..nb_workers
Tasks == 0..MaxWorkers

NoArg == [item |-> [url |-> 0, dest |-> 0], validator |-> NoValidator, overwrite |-> FALSE]

\* started, finished, reqs, opens: how often the descriptor was passed to
\* download_single, how often that call returned, how many GETs and how many
\* file opens were made for it; existed: the destination existed when its
\* fetch started; rank: how many descriptors with the same destination had
\* started before it; status: the status of its response
NoHist == [started |-> 0, finished |-> 0, reqs |-> 0, opens |-> 0,
           existed |-> FALSE, rank |-> 0, status |-> {}, outcome |-> "none"]

(* ------------------------- pure functions ------------------------------ *)

\* download:236-238  the three tests on the items argument
IsAsyncGen(s) == s = "asyncgen"
IsGenerator(s) == s = "generator"
IsIterable(s) == s \in {"list", "generator"}

\* variant: the else branch that raises is missing
SupportedAll(s) == TRUE

\* download:236-243  does download accept the argument
Supported(s) == IsAsyncGen(s) \/ IsGenerator(s) \/ IsIterable(s)

\* variant: the first element is consumed while the object is inspected
IterateRest(src) == IF src = << >> THEN src ELSE Tail(src)

\* download:239  aiostream.stream.iterate: for item in it: yield item
Iterate(src) == [k \in 1..Len(src) |-> src[k]]

\* download:236-239  the stream handed to download_from_asyncgen
Normalize(s, src) == IF IsAsyncGen(s) THEN src ELSE Iterate(src)

\* variant: a chunk is closed one element late
TakeChunkOver(src, p, n) == SubSeq(src, p + 1, Min(p + n + 1, Len(src)))

\* download_from_asyncgen:152  aiostream.stream.chunks: the next chunk of at most
\* n elements starting after position p
TakeChunk(src, p, n) == SubSeq(src, p + 1, Min(p + n, Len(src)))

\* download_from_asyncgen:153  async for: the stream of chunks is exhausted
Exhausted(src, p) == p >= Len(src)

\* variant: the capacity test is off by one
QueueFullLate(q, cap) == Len(q) > cap

\* download_from_asyncgen:133  asyncio.Queue(nb_workers).full()
QueueFull(q, cap) == Len(q) >= cap

\* variant: the driver waits for an empty queue instead of the join barrier
JoinReadyEmpty(q, unf) == q = << >>

\* download_from_asyncgen:157  queue.join() returns
JoinReady(q, unf) == unf = 0

\* variant: the overwrite flag is read the wrong way round
SkipExistingInverted(file, ow) == file.exists /\ ow

\* download_single:57  the skip test
SkipExisting(file, ow) == file.exists /\ ~ow

\* variant: only error statuses are treated as failures
StatusFailedErrorsOnly(status) == status >= 400

\* download_single:65  the status test
StatusFailed(status) == status # OkStatus

\* variant: the validator is never consulted
CheckFailedNever(validator, content) == FALSE

\* download_single:69-70  the validity test
CheckFailed(validator, content) ==
    validator.supplied /\ content \notin validator.accepts

LoopNeverRunning(lr) == FALSE

\* run_async:192  loop and loop.is_running()
LoopIsRunning(lr) == lr

\* download_from_asyncgen:152-153  the caller's object raises while chunks
\* collects the chunk that starts after position p
StreamRaises(brk, p, n) == \E k \in brk : p <= k /\ k < p + n

\* download_from_asyncgen:150  tqdm(..., disable=verbose): a disabled bar
\* ignores update
BarDisabled(v) == v

\* download_from_asyncgen:135-141  the statuses the retry policy tries again
RetryStatus(status) == status >= 500

IsFinalAttemptExclusive(k, again, n) == k <= n + 1 /\ (k = n + 1 \/ ~again)

\* download_from_asyncgen:135  ExponentialRetry(attempts=retries): the k-th
\* attempt is the last one when the budget of n attempts is used up or its
\* answer is not one to try again
IsFinalAttempt(k, again, n) == k <= n /\ (k = n \/ ~again)

\* download_single:53-54  the directory label_path.mkdir has to create; every
\* destination lies in a directory of its own
LabelOf(item) == item.dest

\* download_single:54  label_path.mkdir(parents=True, exist_ok=True) raises
MkdirFails(item, bad) == LabelOf(item) \in bad

BatchDoneEarly(i, b) == i >= Len(b) - 1

\* download_queue:95  the for loop has gone through the batch
BatchDone(i, b) == i >= Len(b)

QueueFrontLast(q) == q[Len(q)]

\* download_queue:94  queue.get() hands out the oldest batch
QueueFront(q) == Head(q)

\* run_async:195  thread.join() returns
ThreadJoined(th) == th = "finished"

(* ----------------------------- Init ------------------------------------ *)

\* destinations are interchangeable: they are numbered in the order in which
\* the descriptors first name them
Canonical(d, n) ==
    \A k \in 1..n : \A e \in 1..(d[k] - 1) : \E j \in 1..(k - 1) : d[j] = e

\* the descriptor sequences: the k-th descriptor has url k and any destination
ItemSeqs ==
    UNION {{[k \in 1..n |-> [url |-> k, dest |-> d[k]]] :
              d \in {e \in [1..n -> Dests] : Canonical(e, n)}} : n \in 0..MaxItems}

InitCommon ==
    /\ stream = << >>
    /\ pos = 0
    /\ held = << >>
    /\ queue = << >>
    /\ unfinished = 0
    /\ progress = 0
    /\ exc = "none"
    /\ runner = "none"
    /\ thread = "none"
    /\ tresult = "unset"
    /\ got = "pending"
    /\ batch = [t \in Tasks |-> << >>]
    /\ idx = [t \in Tasks |-> 0]
    /\ arg = [t \in Tasks |-> NoArg]
    /\ h = [u \in Urls |-> NoHist]
    /\ enq = << >>
    /\ deq = << >>
    /\ fin = << >>

\* the state before download(items, ...) is called
InitCall ==
    /\ items \in ItemSeqs
    /\ overwrite \in BOOLEAN
    /\ batch_size \in 1..MaxBatch
    /\ fs \in [Dests -> {NoFile, OldFile}]
    /\ fs0 = fs
    /\ pc = "call"
    /\ tpc = [t \in Tasks |-> "none"]
    /\ session = "none"
    /\ InitCommon

\* a stream that ends normally, writable directories, one attempt per GET,
\* the progress bar enabled
Plain ==
    /\ retries = 1
    /\ verbose = FALSE
    /\ breaks = {}
    /\ unwritable = {}

\* nothing has been downloaded yet and existing files would be replaced
EmptyTree ==
    /\ overwrite = TRUE
    /\ fs = [d \in Dests |-> NoFile]

\* called from a thread without a running loop with any pool size, or from
\* inside a running loop with one worker
Pool ==
    /\ nb_workers \in 1..MaxWorkers
    /\ loopRunning \in BOOLEAN
    /\ loopRunning => nb_workers = 1

\* download called with an asynchronous generator or with an unsupported
\* object, any pool size
Init ==
    /\ shape \in {"asyncgen", "int"}
    /\ Pool
    /\ Plain
    /\ InitCall

\* download called with an object of any shape, one worker
InitShapes ==
    /\ shape \in Shapes
    /\ nb_workers = 1
    /\ loopRunning \in BOOLEAN
    /\ Plain
    /\ InitCall

\* as Init, and the directory of a destination without a file may be one
\* that cannot be created
InitMkdir ==
    /\ shape \in {"asyncgen", "int"}
    /\ Pool
    /\ retries = 1
    /\ verbose = FALSE
    /\ breaks = {}
    /\ InitCall
    /\ unwritable \in SUBSET {d \in Dests : ~fs[d].exists}

\* one worker, any retry budget, the progress bar enabled or disabled, an
\* empty destination tree
InitOptions ==
    /\ shape \in {"asyncgen", "int"}
    /\ nb_workers = 1
    /\ loopRunning \in BOOLEAN
    /\ retries \in 1..MaxRetries
    /\ verbose \in BOOLEAN
    /\ breaks = {}
    /\ unwritable = {}
    /\ InitCall
    /\ EmptyTree

\* either mode of run_async, a stream that may raise at any point, an empty
\* destination tree
InitBridge ==
    /\ shape \in {"asyncgen", "int"}
    /\ Pool
    /\ retries = 1
    /\ verbose = FALSE
    /\ unwritable = {}
    /\ InitCall
    /\ EmptyTree
    /\ breaks \in {{}} \cup {{k} : k \in 0..Len(items)}

\* download_single called directly, one call after the other, on an open client
InitSingle ==
    /\ shape = "list"
    /\ loopRunning = FALSE
    /\ Plain
    /\ items \in ItemSeqs
    /\ overwrite = FALSE
    /\ batch_size = 1
    /\ nb_workers = 1
    /\ fs \in [Dests -> {NoFile, OldFile}]
    /\ fs0 = fs
    /\ pc = "direct"
    /\ tpc = [t \in Tasks |-> IF t = Direct THEN "idle" ELSE "none"]
    /\ InitCommon
    /\ session = "open"

(* ------------------------ download / driver ---------------------------- *)

\* download:235-254 and download_from_asyncgen:133-148
\* and run_async:183-198: the pipeline is started on a RunThread when a loop
\* is running in the calling thread, with asyncio.run in the caller otherwise
Download ==
    /\ pc = "call"
    /\ IF Supported(shape)
       THEN /\ stream' = Normalize(shape, items)
            /\ IF LoopIsRunning(loopRunning)
               THEN runner' = "thread" /\ thread' = "running"
               ELSE runner' = "caller" /\ thread' = thread
            /\ session' = "open"
            /\ tpc' = [t \in Tasks |-> IF t \in Workers THEN "get" ELSE tpc[t]]
            /\ pc' = "pull"
            /\ got' = got
       ELSE /\ pc' = "raised"
            /\ got' = "NotImplementedError"
            /\ UNCHANGED << stream, session, tpc, runner, thread >>
    /\ UNCHANGED << params, pos, held, queue, unfinished, fin, progress, batch, idx,
                    arg, fs, h, enq, deq, exc, tresult >>

\* download_from_asyncgen:152-153  the next chunk, or the end of the stream
\* or the error the caller's object raises, which leaves both async with blocks
ProducerPull ==
    /\ pc = "pull"
    /\ IF StreamRaises(breaks, pos, batch_size)
       THEN /\ pc' = "unwind"
            /\ exc' = "StreamError"
            /\ UNCHANGED << held, pos >>
       ELSE IF Exhausted(stream, pos)
       THEN /\ pc' = "join"
            /\ UNCHANGED << held, pos, exc >>
       ELSE /\ held' = TakeChunk(stream, pos, batch_size)
            /\ pos' = pos + Len(held')
            /\ pc' = "put"
            /\ exc' = exc
    /\ UNCHANGED << params, stream, queue, unfinished, fin, progress, session, tpc,
                    batch, idx, arg, fs, h, enq, deq, runner, thread, tresult, got >>

\* download_from_asyncgen:154-155  await queue.put(batch); progressbar.update
ProducerPut ==
    /\ pc = "put"
    /\ ~QueueFull(queue, nb_workers)
    /\ queue' = Append(queue, held)
    /\ unfinished' = unfinished + 1
    /\ progress' = IF BarDisabled(verbose) THEN progress ELSE progress + Len(held)
    /\ enq' = Append(enq, held)
    /\ held' = << >>
    /\ pc' = "pull"
    /\ UNCHANGED << params, stream, pos, session, tpc, batch, idx, arg, fs, h,
                    deq, fin, bridge >>

\* download_from_asyncgen:157  await queue.join()
JoinPass ==
    /\ pc = "join"
    /\ JoinReady(queue, unfinished)
    /\ pc' = "close"
    /\ UNCHANGED << params, stream, pos, held, queue, unfinished, fin, progress,
                    session, tpc, batch, idx, arg, fs, h, enq, deq, bridge >>

\* download_from_asyncgen:137-141  exit of the async with, after join or with
\* the stream's error: the client is closed; the error then leaves
\* download_from_asyncgen without reaching the cancel loop
CloseSession ==
    /\ pc \in {"close", "unwind"}
    /\ session' = "closed"
    /\ pc' = IF pc = "close" THEN "cancel" ELSE "exit"
    /\ UNCHANGED << params, stream, pos, held, queue, unfinished, fin, progress,
                    tpc, batch, idx, arg, fs, h, enq, deq, bridge >>

\* a task that cancel() still acts on
Live(t) == tpc[t] \in {"get", "start", "http", "open", "write"}

\* download_from_asyncgen:159-160  cancel every worker, then return
CancelWorkers ==
    /\ pc = "cancel"
    /\ tpc' = [t \in Tasks |-> IF t \in Workers /\ Live(t) THEN "cancelled" ELSE tpc[t]]
    /\ pc' = "exit"
    /\ UNCHANGED << params, stream, pos, held, queue, unfinished, fin, progress,
                    session, batch, idx, arg, fs, h, enq, deq, bridge >>

\* RunThread.run:180 and run_async:198  asyncio.run ends: it tears down the
\* tasks still pending on its loop, then hands the pipeline's result or error
\* to its caller; in the thread the result is stored and the error ends the
\* thread without a result
LoopExit ==
    /\ pc = "exit"
    /\ tpc' = [t \in Tasks |-> IF t \in Workers /\ Live(t) THEN "aborted" ELSE tpc[t]]
    /\ IF runner = "thread"
       THEN /\ thread' = "finished"
            /\ tresult' = IF exc = "none" THEN "None" ELSE tresult
            /\ pc' = "ended"
            /\ got' = got
       ELSE /\ pc' = IF exc = "none" THEN "done" ELSE "failed"
            /\ got' = IF exc = "none" THEN "None" ELSE exc
            /\ UNCHANGED << thread, tresult >>
    /\ UNCHANGED << params, stream, pos, held, queue, unfinished, fin, progress,
                    session, batch, idx, arg, fs, h, enq, deq, exc, runner >>

\* run_async:195-196  thread.join() returns, then return thread.result
ThreadJoin ==
    /\ pc = "ended"
    /\ runner = "thread"
    /\ ThreadJoined(thread)
    /\ IF tresult # "unset"
       THEN pc' = "done" /\ got' = tresult
       ELSE pc' = "failed" /\ got' = "AttributeError"
    /\ UNCHANGED << params, stream, pos, held, queue, unfinished, fin, progress,
                    session, tpc, batch, idx, arg, fs, h, enq, deq, exc, runner,
                    thread, tresult >>

(* --------------------- download_queue / download_single ---------------- *)

\* download_queue:96  the arguments a worker passes to download_single
WorkerArg(item) == [item |-> item, validator |-> NoValidator, overwrite |-> overwrite]

\* download_queue:95-97  download_single returned to its caller: the next
\* sample of the batch, or task_done and back to queue.get
Return(t) ==
    IF t = Direct
    THEN /\ tpc' = [tpc EXCEPT ![t] = "returned"]
         /\ arg' = [arg EXCEPT ![t] = NoArg]
         /\ UNCHANGED << batch, idx, unfinished, fin >>
    ELSE IF ~BatchDone(idx[t], batch[t])
    THEN /\ idx' = [idx EXCEPT ![t] = idx[t] + 1]
         /\ arg' = [arg EXCEPT ![t] = WorkerArg(batch[t][idx[t] + 1])]
         /\ tpc' = [tpc EXCEPT ![t] = "start"]
         /\ UNCHANGED << batch, unfinished, fin >>
    ELSE /\ unfinished' = unfinished - 1
         /\ fin' = Append(fin, batch[t])
         /\ tpc' = [tpc EXCEPT ![t] = "get"]
         /\ batch' = [batch EXCEPT ![t] = << >>]
         /\ idx' = [idx EXCEPT ![t] = 0]
         /\ arg' = [arg EXCEPT ![t] = NoArg]

\* download_queue:96  download_single raised: nothing catches it, the worker
\* task ends with the exception and never reaches task_done
Raise(t) ==
    /\ tpc' = [tpc EXCEPT ![t] = IF t = Direct THEN "raised" ELSE "dead"]
    /\ UNCHANGED << batch, idx, arg, unfinished, fin >>

\* download_queue:94-95  batch = await queue.get(); enter the for loop
WorkerGet(t) ==
    /\ t \in Workers
    /\ tpc[t] = "get"
    /\ queue # << >>
    /\ queue' = Tail(queue)
    /\ deq' = Append(deq, QueueFront(queue))
    /\ IF Len(QueueFront(queue)) > 0
       THEN /\ batch' = [batch EXCEPT ![t] = QueueFront(queue)]
            /\ idx' = [idx EXCEPT ![t] = 1]
            /\ arg' = [arg EXCEPT ![t] = WorkerArg(QueueFront(queue)[1])]
            /\ tpc' = [tpc EXCEPT ![t] = "start"]
            /\ UNCHANGED << unfinished, fin >>
       ELSE /\ unfinished' = unfinished - 1
            /\ fin' = Append(fin, QueueFront(queue))
            /\ UNCHANGED << batch, idx, arg, tpc >>
    /\ UNCHANGED << params, driver, fs, h >>

\* download_single:50-61  path, mkdir of the label directory, existence test,
\* then either the early return or the GET is issued; mkdir raises when the
\* directory cannot be created, session.get raises on a closed client
FetchStart(t) ==
    /\ tpc[t] = "start"
    /\ LET u == arg[t].item.url
           f == fs[arg[t].item.dest]
           r == Cardinality({k \in 1..Len(items) :
                   items[k].dest = arg[t].item.dest /\ h[items[k].url].started > 0})
       IN /\ IF MkdirFails(arg[t].item, unwritable)
             THEN /\ h' = [h EXCEPT ![u].started = @ + 1, ![u].existed = f.exists, ![u].rank = r,
                                    ![u].outcome = "mkdir_raised"]
                  /\ Raise(t)
             ELSE IF SkipExisting(f, arg[t].overwrite)
             THEN /\ h' = [h EXCEPT ![u].started = @ + 1, ![u].existed = f.exists, ![u].rank = r,
                                    ![u].finished = @ + 1, ![u].outcome = "skipped"]
                  /\ Return(t)
             ELSE IF session # "open"
             THEN /\ h' = [h EXCEPT ![u].started = @ + 1, ![u].existed = f.exists, ![u].rank = r,
                                    ![u].reqs = @ + 1, ![u].outcome = "raised"]
                  /\ Raise(t)
             ELSE /\ h' = [h EXCEPT ![u].started = @ + 1, ![u].existed = f.exists, ![u].rank = r,
                                    ![u].reqs = @ + 1]
                  /\ tpc' = [tpc EXCEPT ![t] = "http"]
                  /\ UNCHANGED << batch, idx, arg, unfinished, fin >>
    /\ UNCHANGED << params, driver, queue, fs, deq >>

\* download_single:61-72  the answer to one attempt of the GET arrives, an
\* error or a response: the retry client issues the GET again unless this was
\* the final attempt; the final error is raised into download_single, the
\* final response is returned and its status and bytes are tested
HttpRespond(t) ==
    /\ tpc[t] = "http"
    /\ LET u == arg[t].item.url
           k == h[u].reqs
       IN \/ \E again \in BOOLEAN :
                IF IsFinalAttempt(k, again, retries)
                THEN /\ h' = [h EXCEPT ![u].outcome = "raised"]
                     /\ Raise(t)
                ELSE /\ h' = [h EXCEPT ![u].reqs = @ + 1]
                     /\ UNCHANGED << tpc, batch, idx, arg, unfinished, fin >>
          \/ \E s \in Statuses :
                IF ~IsFinalAttempt(k, RetryStatus(s), retries)
                THEN /\ h' = [h EXCEPT ![u].reqs = @ + 1]
                     /\ UNCHANGED << tpc, batch, idx, arg, unfinished, fin >>
                ELSE IF StatusFailed(s)
                THEN /\ h' = [h EXCEPT ![u].status = {s}, ![u].finished = @ + 1,
                                       ![u].outcome = "failed_status"]
                     /\ Return(t)
                ELSE IF CheckFailed(arg[t].validator, Payload(u))
                THEN /\ h' = [h EXCEPT ![u].status = {s}, ![u].finished = @ + 1,
                                       ![u].outcome = "failed_check"]
                     /\ Return(t)
                ELSE /\ h' = [h EXCEPT ![u].status = {s}]
                     /\ tpc' = [tpc EXCEPT ![t] = "open"]
                     /\ UNCHANGED << batch, idx, arg, unfinished, fin >>
    /\ UNCHANGED << params, driver, queue, fs, deq >>

\* download_single:74  aiofiles.open(file_path, "+wb"): created or truncated
FileOpen(t) ==
    /\ tpc[t] = "open"
    /\ fs' = [fs EXCEPT ![arg[t].item.dest] = [exists |-> TRUE, bytes |-> EmptyBytes]]
    /\ h' = [h EXCEPT ![arg[t].item.url].opens = @ + 1]
    /\ tpc' = [tpc EXCEPT ![t] = "write"]
    /\ UNCHANGED << params, driver, queue, unfinished, fin, batch, idx, arg, deq >>

\* download_single:75  f.write(content), close, return
FileWrite(t) ==
    /\ tpc[t] = "write"
    /\ LET u == arg[t].item.url
       IN /\ fs' = [fs EXCEPT ![arg[t].item.dest].bytes = Payload(u)]
          /\ h' = [h EXCEPT ![u].finished = @ + 1, ![u].outcome = "success"]
    /\ Return(t)
    /\ UNCHANGED << params, driver, queue, deq >>

\* download_single:31-37  a caller other than download_queue calls the fetcher
\* on a descriptor with arguments of its choice
CallSingle ==
    /\ tpc[Direct] \in {"idle", "returned"}
    /\ \E k \in 1..Len(items), v \in Validators, ow \in BOOLEAN :
          /\ h[items[k].url].started = 0
          /\ arg' = [arg EXCEPT ![Direct] = [item |-> items[k], validator |-> v, overwrite |-> ow]]
    /\ tpc' = [tpc EXCEPT ![Direct] = "start"]
    /\ UNCHANGED << params, driver, queue, unfinished, fin, batch, idx, fs, h, deq >>

(* --------------------------- specifications ---------------------------- *)

Fetch(t) == FetchStart(t) \/ HttpRespond(t) \/ FileOpen(t) \/ FileWrite(t)

Next ==
    \/ Download
    \/ ProducerPull
    \/ ProducerPut
    \/ JoinPass
    \/ CloseSession
    \/ CancelWorkers
    \/ LoopExit
    \/ ThreadJoin
    \/ \E t \in Tasks : WorkerGet(t)
    \/ \E t \in Tasks : FetchStart(t)
    \/ \E t \in Tasks : HttpRespond(t)
    \/ \E t \in Tasks : FileOpen(t)
    \/ \E t \in Tasks : FileWrite(t)

Spec == Init /\ [][Next]_vars

\* the same pipeline, every input shape
ShapeSpec == InitShapes /\ [][Next]_vars

\* the event loop runs every task that can run: the driver coroutine and
\* every worker are scheduled again whenever they are ready
Producer ==
    \/ Download \/ ProducerPull \/ ProducerPut \/ JoinPass \/ CloseSession
    \/ CancelWorkers \/ LoopExit \/ ThreadJoin

FairSpec ==
    /\ Init
    /\ [][Next]_vars
    /\ WF_vars(Producer)
    /\ \A t \in Tasks : WF_vars(WorkerGet(t) \/ Fetch(t))

\* the same scheduling, directories that may be impossible to create
MkdirSpec ==
    /\ InitMkdir
    /\ [][Next]_vars
    /\ WF_vars(Producer)
    /\ \A t \in Tasks : WF_vars(WorkerGet(t) \/ Fetch(t))

\* direct calls of download_single
NextSingle ==
    \/ CallSingle
    \/ FetchStart(Direct)
    \/ HttpRespond(Direct)
    \/ FileOpen(Direct)
    \/ FileWrite(Direct)

SingleSpec == InitSingle /\ [][NextSingle]_vars

\* one worker, every retry budget, the progress bar on or off
OptionSpec == InitOptions /\ [][Next]_vars

\* both modes of run_async, a stream that may raise
BridgeSpec == InitBridge /\ [][Next]_vars

(* ------------------------------ properties ----------------------------- *)

\* the shapes download is documented to accept
AcceptedShapes == {"list", "generator", "asyncgen"}

ItemUrls == {items[k].url : k \in 1..Len(items)}
DestOf(u) == items[u].dest
WrittenFile(u) == [exists |-> TRUE, bytes |-> Payload(u)]
Is2xx(status) == status \in 200..299

\* no other descriptor of the stream has the destination of u
DistinctDest(u) == \A v \in ItemUrls : v # u => DestOf(v) # DestOf(u)

\* batches pulled from the stream and not yet handed to a worker
Undequeued == Len(enq) + (IF held # << >> THEN 1 ELSE 0) - Len(deq)

CeilDiv(a, b) == (a + b - 1) \div b

RECURSIVE Flatten(_)
Flatten(bs) == IF bs = << >> THEN << >> ELSE Head(bs) \o Flatten(Tail(bs))

\* C1: under fair scheduling of the producer and the workers, download called
\* on a supported input eventually returns, whatever the outcome of each item.
C1_DownloadReturns == shape \in AcceptedShapes => <>(pc = "done")

\* C2: when download has returned, every descriptor of the stream was passed
\* to the fetcher exactly once and that fetch has finished; nothing is queued,
\* held by the producer or in flight.
C2_AllFetchedOnReturn ==
    pc = "done" =>
        /\ \A u \in ItemUrls : h[u].started = 1 /\ h[u].finished = 1
        /\ queue = << >> /\ held = << >> /\ pos = Len(items)
        /\ \A t \in Workers : batch[t] = << >>

C2_Witness ==
    /\ pc = "done"
    /\ Len(items) = MaxItems
    /\ \E u, v \in ItemUrls : h[u].status = {200} /\ h[v].status = {500}

\* C3: with overwrite=false, a fetch that starts while its destination file
\* exists issues no GET, changes no file and returns in that same step.
C3_SkipNoRequest ==
    [][\A u \in ItemUrls :
          (h'[u].started > h[u].started /\ ~overwrite /\ fs[DestOf(u)].exists)
              => /\ h'[u].reqs = 0
                 /\ fs' = fs
                 /\ h'[u].finished = h[u].finished + 1]_vars

C3_Witness ==
    \E u \in ItemUrls :
        /\ ~overwrite /\ fs0[DestOf(u)].exists
        /\ h[u].finished = 1 /\ h[u].reqs = 0
        /\ fs[DestOf(u)] = OldFile

\* C4: with overwrite=false, of the descriptors with one destination the one
\* whose fetch started first wins: once it has written its file, every
\* descriptor that started later has issued no GET and opened no file, and the
\* file holds the first one's payload.
C4_FirstArrivingWins ==
    ~overwrite =>
        \A u, v \in ItemUrls :
            (/\ u # v /\ DestOf(u) = DestOf(v)
             /\ h[u].started = 1 /\ h[u].rank = 0 /\ h[u].outcome = "success"
             /\ h[v].started = 1)
                => /\ h[v].reqs = 0
                   /\ h[v].opens = 0
                   /\ fs[DestOf(u)] = WrittenFile(u)

\* C5 as stated: after the run, a descriptor with a destination of its own
\* whose response had a 2xx status has its file with the response bytes, and
\* a response is treated as failed only when its status is not 2xx.
C5_Any2xxWritten ==
    pc = "done" =>
        \A u \in ItemUrls :
            (DistinctDest(u) /\ h[u].status # {} /\ \A s \in h[u].status : Is2xx(s))
                => fs[DestOf(u)] = WrittenFile(u)

\* C5 amended: after the run, a descriptor with a destination of its own whose
\* response had status 200 has its file with exactly the response bytes; a
\* response with any other status, 2xx or not, leads to no file being opened.
C5_Status200Written ==
    pc = "done" =>
        \A u \in ItemUrls :
            /\ (DistinctDest(u) /\ h[u].status = {200}) => fs[DestOf(u)] = WrittenFile(u)
            /\ (h[u].status # {} /\ h[u].status # {200}) => h[u].opens = 0

C5_Witness ==
    /\ pc = "done"
    /\ \E u, v \in ItemUrls :
          /\ DistinctDest(u) /\ h[u].status = {200} /\ fs[DestOf(u)] = WrittenFile(u)
          /\ fs0[DestOf(u)] = OldFile
          /\ h[v].status = {204} /\ h[v].opens = 0

\* C6 as stated: the batches pulled from the stream and not yet dequeued
\* number at most nb_workers.
C6_UndequeuedAtMostCapacity == Undequeued <= nb_workers

\* C6 amended: the queue holds at most nb_workers batches and at most
\* nb_workers + 1 batches are pulled and not yet dequeued (the extra one is
\* held by the producer suspended at put); while the producer is suspended at
\* put on a full queue, no further descriptor is pulled from the stream.
C6_Backpressure ==
    [][/\ Len(queue') <= nb_workers
       /\ Undequeued' <= nb_workers + 1
       /\ (pc = "put" /\ Len(queue) >= nb_workers)
              => (pos' = pos /\ held' = held /\ pc' = pc)]_vars

C6_Witness ==
    /\ pc = "put"
    /\ Len(queue) = nb_workers
    /\ Undequeued = nb_workers + 1
    /\ pos < Len(items)

\* C7: every enqueued batch has between 1 and batch_size descriptors, every
\* batch but the last enqueued has exactly batch_size, the batches enqueued so
\* far concatenate to a prefix of the stream, and once the stream is exhausted
\* there are ceil(n / batch_size) batches that concatenate to the stream.
C7_Chunking ==
    /\ \A k \in 1..Len(enq) :
          /\ Len(enq[k]) \in 1..batch_size
          /\ k < Len(enq) => Len(enq[k]) = batch_size
    /\ Flatten(enq) = SubSeq(items, 1, Len(Flatten(enq)))
    /\ pc \in {"join", "close", "cancel", "exit", "ended", "done"} =>
          /\ Len(enq) = CeilDiv(Len(items), batch_size)
          /\ Flatten(enq) = items

C7_Witness ==
    /\ pc = "done"
    /\ batch_size = MaxBatch
    /\ Len(items) = MaxItems
    /\ Len(enq[Len(enq)]) < batch_size

\* C8: when the items argument has none of the accepted shapes, download
\* raises and nothing was done: no client, no worker, nothing queued, no GET,
\* the filesystem as it was.
C8_UnsupportedInputRaises ==
    shape \notin AcceptedShapes =>
        /\ pc \in {"call", "raised"}
        /\ session = "none"
        /\ \A t \in Tasks : tpc[t] = "none"
        /\ queue = << >> /\ unfinished = 0 /\ enq = << >> /\ pos = 0
        /\ \A u \in Urls : h[u].started = 0 /\ h[u].reqs = 0
        /\ fs = fs0

C8_Witness == pc = "raised" /\ shape = "asynciter" /\ Len(items) = MaxItems

\* the batches of a sequence, computed from the indices
Chunks(src, n) ==
    [k \in 1..CeilDiv(Len(src), n) |-> SubSeq(src, (k - 1) * n + 1, Min(k * n, Len(src)))]

\* the filesystem after the first k descriptors were fetched one after the
\* other, given the status each response had
RECURSIVE SeqRun(_)
SeqRun(k) ==
    IF k = 0 THEN fs0
    ELSE LET before == SeqRun(k - 1)
             d == items[k].dest
         IN IF (before[d].exists /\ ~overwrite) \/ h[k].status # {200}
            THEN before
            ELSE [before EXCEPT ![d] = WrittenFile(k)]

\* C9: whichever accepted shape the descriptors come in, the batches enqueued
\* are the chunks of the descriptor sequence and the run ends with the files
\* that fetching the descriptors in order gives: neither depends on the shape.
C9_ShapeIndependent ==
    \A sh \in AcceptedShapes :
        (shape = sh /\ pc = "done") =>
            /\ enq = Chunks(items, batch_size)
            /\ fs = SeqRun(Len(items))

C9_Witness ==
    /\ pc = "done"
    /\ shape = "generator"
    /\ Len(items) = MaxItems
    /\ \E u \in ItemUrls : fs[DestOf(u)] = WrittenFile(u)

\* C10: when the response of a fetch arrives with a status other than 200 or
\* with bytes the supplied validator rejects, that step changes no file, the
\* fetch opens no file and the call returns normally to its caller.
C10_FailedNoWrite ==
    [][\A t \in Tasks :
          LET u == arg[t].item.url
          IN (/\ tpc[t] = "http"
              /\ h'[u].status # h[u].status
              /\ \/ h'[u].status # {200}
                 \/ /\ arg[t].validator.supplied
                    /\ Payload(u) \notin arg[t].validator.accepts)
                 => /\ fs' = fs
                    /\ h'[u].opens = 0
                    /\ h'[u].finished = h[u].finished + 1
                    /\ tpc'[t] \notin {"open", "write", "dead", "raised"}]_vars

C10_Witness ==
    /\ tpc[Direct] = "returned"
    /\ \E u, v \in ItemUrls :
          /\ h[u].outcome = "failed_check" /\ h[u].status = {200} /\ h[u].opens = 0
          /\ h[v].outcome = "failed_status" /\ h[v].status = {500} /\ h[v].opens = 0
          /\ fs = fs0 /\ fs0[DestOf(u)] = OldFile

\* a fetch of u is between its GET and the end of its write
InFetch(t) == tpc[t] \in {"start", "http", "open", "write"}
Fetching(u) == \E t \in Tasks : InFetch(t) /\ arg[t].item.url = u

\* C11: the retry budget counts attempts: no descriptor gets more than
\* `retries` GETs, and a descriptor whose last answer is a 500 got exactly
\* `retries` GETs, its fetch returned normally (the worker went on), and it
\* opened no file and left its destination as it was.
C11_AttemptsInclusive ==
    \A u \in ItemUrls :
        /\ h[u].reqs <= retries
        /\ h[u].status = {500} =>
              /\ h[u].reqs = retries
              /\ h[u].finished = 1
              /\ h[u].opens = 0
              /\ DistinctDest(u) => fs[DestOf(u)] = fs0[DestOf(u)]

C11_Witness ==
    /\ retries = MaxRetries
    /\ \E u \in ItemUrls :
          /\ h[u].status = {500} /\ h[u].reqs = MaxRetries
          /\ h[u].finished = 1 /\ ~fs[DestOf(u)].exists
          /\ \E t \in Workers : tpc[t] \in {"get", "start"} /\ ~Fetching(u)

\* the fetch of some descriptor has reached mkdir on a directory that cannot
\* be created
MkdirFailed == \E u \in ItemUrls : h[u].started > 0 /\ DestOf(u) \in unwritable

\* download has handed its caller a result or an error
Signalled == pc \in {"done", "failed", "raised"}

\* C12: under fair scheduling, once directory creation has failed for a
\* descriptor the call ends: download fails with the error or returns; it
\* never stays blocked with the rest of the batch dropped.
C12_MkdirFailureSignalled == MkdirFailed ~> Signalled

\* download_from_asyncgen:160  w.cancel() has acted on the worker task
Cancelled(st) == st = "cancelled"

PipelineRunning == pc \in {"pull", "put", "join", "close", "unwind", "cancel", "exit"}

\* C14: called with a loop running in the calling thread, run_async runs the
\* pipeline on the one separate thread, the caller gets nothing before that
\* thread has finished, and a finished call returns the pipeline's result;
\* called without a running loop, it runs the pipeline in the calling thread
\* and starts no thread.
C14_Bridge ==
    /\ loopRunning =>
          /\ PipelineRunning => runner = "thread" /\ thread = "running"
          /\ got \notin {"pending", "NotImplementedError"} => thread = "finished"
          /\ pc = "done" => got = "None" /\ exc = "none"
    /\ ~loopRunning =>
          /\ thread = "none"
          /\ PipelineRunning => runner = "caller"
          /\ pc = "done" => got = "None" /\ exc = "none"

C14_Witness ==
    /\ loopRunning /\ pc = "done" /\ got = "None"
    /\ runner = "thread" /\ thread = "finished"
    /\ Len(fin) >= 2

\* the batches of a sequence of batches
Range(bs) == {bs[k] : k \in 1..Len(bs)}

\* C15: the descriptors of a batch are fetched one after the other in batch
\* order: a descriptor's fetch has started only if its predecessor's has
\* finished, no two descriptors of a batch are being fetched at once, and a
\* batch marked done has the fetch of every descriptor finished.
C15_SequentialInBatch ==
    /\ \A b \in Range(enq) :
          /\ \A i \in 1..(Len(b) - 1) :
                h[b[i + 1].url].started > 0 => h[b[i].url].finished = 1
          /\ Cardinality({i \in 1..Len(b) : Fetching(b[i].url)}) <= 1
    /\ \A b \in Range(fin) :
          \A i \in 1..Len(b) : h[b[i].url].started = 1 /\ h[b[i].url].finished = 1

C15_Witness ==
    \E b \in Range(fin) :
        /\ Len(b) = MaxBatch
        /\ \A i \in 1..Len(b) : h[b[i].url].finished = 1
        /\ h[b[1].url].status = {200} /\ h[b[Len(b)].url].status = {500}

\* C16: batches are enqueued in stream order and dequeued in the order they
\* were enqueued: the dequeued batches are always the first enqueued ones, in
\* the same order; the order in which batches are marked done is free.
C16_FifoDequeue ==
    /\ Flatten(enq) = SubSeq(items, 1, Len(Flatten(enq)))
    /\ Len(deq) <= Len(enq)
    /\ deq = SubSeq(enq, 1, Len(deq))
    /\ Range(fin) \subseteq Range(deq)

\* two workers: the second batch is marked done before the first, the third
\* after the first
C16_Witness ==
    /\ nb_workers >= 2
    /\ Len(enq) = 3
    /\ fin = << enq[2], enq[1], enq[3] >>

\* the driver is between the creation of the workers and their cancellation
BeforeCancel == pc \in {"pull", "put", "join", "close"}

\* C17: at most nb_workers fetches are in progress and at most nb_workers
\* batches are held by workers; from the first enqueue to the final
\* cancellation the pool consists of the same nb_workers running workers.
C17_PoolFixed ==
    /\ Cardinality({t \in Workers : InFetch(t)}) <= nb_workers
    /\ Cardinality({t \in Workers : batch[t] # << >>}) <= nb_workers
    /\ \A t \in Tasks \ Workers : t # Direct => tpc[t] = "none"
    /\ BeforeCancel => \A t \in Workers : Live(t)

\* descriptors whose fetch has finished
Finished == {u \in ItemUrls : h[u].finished > 0}

\* C18: the progress counter equals the number of descriptors in the batches
\* enqueued so far, so it is never below the number of finished fetches, and
\* it equals the length of the stream when download has returned.
C18_ProgressCounts ==
    /\ progress = Len(Flatten(enq))
    /\ progress >= Cardinality(Finished)
    /\ pc = "done" => progress = Len(items)

\* C19: no GET is issued on a closed client, and the client is closed only
\* when no fetch is in progress and no live worker has a batch left to take,
\* also when the stream raises.
C19_ClosedClientIdle ==
    [][/\ \A u \in ItemUrls : h'[u].reqs > h[u].reqs => session = "open"
       /\ (session = "open" /\ session' = "closed") =>
             \A t \in Workers : ~InFetch(t) /\ (Live(t) => queue = << >>)]_vars

\* C20: in both modes of run_async the caller receives what the pipeline
\* produced: its return value when it returned, its own error when it raised.
C20_SameOutcome ==
    (runner # "none" /\ got # "pending") =>
        /\ exc = "none" => got = "None"
        /\ exc # "none" => got = exc

====
